---------------------------- MODULE Spec2Model ----------------------------
(***************************************************************************)
(* Model of scripts/analysis/SNR_analysis.py: the batch driver             *)
(* process_files and the numerical functions it calls (high_pass_filter,   *)
(* calculate_snr, calculate_average_power_ratio).                          *)
(*                                                                         *)
(* Numbers.  Sample amplitudes are small integers.  A floating-point       *)
(* value is one of                                                         *)
(*   [k |-> "fin", n, d]   the rational n/d in lowest terms, d > 0         *)
(*   [k |-> "inf", s]      +infinity (s = 1) or -infinity (s = -1)         *)
(*   [k |-> "nan"]         not-a-number                                    *)
(*   [k |-> "dB",  arg]    10*log10(arg), arg a positive finite rational   *)
(*   [k |-> "err", sq]     (10/ln 10)*sqrt(sq), sq a positive rational     *)
(* Division, multiplication and addition follow the IEEE-754 rules numpy   *)
(* applies to float64 scalars (x/0 is an infinity, 0/0 is nan, with a      *)
(* RuntimeWarning and no exception); rounding, overflow and underflow of   *)
(* finite values are not modelled (finite arithmetic is exact).            *)
(***************************************************************************)
EXTENDS Integers, Sequences, FiniteSets, TLC

VARIABLES
    \* the environment of one run of the script
    dir_listing,        \* the files of input_dir, in the order the OS lists them
    normcase_folds,     \* TRUE where fnmatch folds case (os.path.normcase on Windows)
    cutoff_frequency,   \* process_files parameter
    sampling_frequency, \* process_files parameter
    \* process_files
    pc,                 \* the statement about to run
    output_dir_exists,  \* os.makedirs(output_dir, exist_ok=True) has run
    csv_files,          \* the list glob returned
    idx,                \* position of the for loop in csv_files
    time,               \* locals of the loop body
    signal,
    estimated_noise,
    snr,
    snr_error,
    power_ratio,
    exc,                \* the exception most recently raised (the handler's e)
    log,                \* records written through logging
    stdout,             \* lines written by print
    plots,              \* plot files saved, in order
    exit_status,        \* the interpreter's exit status, None while running
    \* direct calls of the numerical functions
    order,              \* high_pass_filter's order argument
    e_supplied,         \* the error fraction a caller of the estimator wants
    calls,              \* the direct calls made so far: function, arguments, result
    scale,              \* the factor by which the caller scaled both arguments
    \* process_datasets of the strain script: locals of its loop body
    intensity,
    normalized_intensity,
    displacement

vars == <<dir_listing, normcase_folds, cutoff_frequency, sampling_frequency,
          pc, output_dir_exists, csv_files, idx, time, signal, estimated_noise,
          snr, snr_error, power_ratio, exc, log, stdout, plots, exit_status,
          order, e_supplied, calls, scale, intensity, normalized_intensity,
          displacement>>

-----------------------------------------------------------------------------
(* Bounds of the model *)

MaxAmp == 2        \* sample amplitudes of directly called estimates: -1..MaxAmp
MaxLen == 2        \* longest sequence handed directly to the estimator
MaxFiles == 2      \* most files in input_dir
MaxSepLen == 34    \* longest sequence handed directly to high_pass_filter
MaxSamples == 3    \* longest intensity array handed to normalize_intensity

-----------------------------------------------------------------------------
(* float64 values *)

None == [k |-> "none"]
NaN == [k |-> "nan"]
PosInf == [k |-> "inf", s |-> 1]
NegInf == [k |-> "inf", s |-> -1]

Abs(x) == IF x < 0 THEN -x ELSE x

Sgn(x) == IF x < 0 THEN -1 ELSE IF x = 0 THEN 0 ELSE 1

RECURSIVE GCD(_, _)
GCD(a, b) == IF b = 0 THEN a ELSE GCD(b, a % b)

\* the rational n/d (d # 0) in lowest terms with a positive denominator
Frac(n, d) ==
    LET g == GCD(Abs(n), Abs(d))
    IN  [k |-> "fin", n |-> (Sgn(d) * n) \div g, d |-> Abs(d) \div g]

Zero == Frac(0, 1)

IsFinite(x) == x.k = "fin"

\* x / y on float64 scalars
FDiv(x, y) ==
    IF x.k = "nan" \/ y.k = "nan" THEN NaN
    ELSE IF x.k = "inf"
         THEN IF y.k = "inf" THEN NaN
              ELSE [k |-> "inf", s |-> IF y.n < 0 THEN -x.s ELSE x.s]
    ELSE IF y.k = "inf" THEN Zero
    ELSE IF y.n = 0
         THEN IF x.n = 0 THEN NaN ELSE [k |-> "inf", s |-> Sgn(x.n)]
    ELSE LET gn == GCD(Abs(x.n), Abs(y.n))
             gd == GCD(x.d, y.d)
         IN  Frac((x.n \div gn) * (y.d \div gd), (x.d \div gd) * (y.n \div gn))

\* x * y on float64 scalars
FMul(x, y) ==
    IF x.k = "nan" \/ y.k = "nan" THEN NaN
    ELSE IF x.k = "inf"
         THEN IF y.k = "inf" THEN [k |-> "inf", s |-> x.s * y.s]
              ELSE IF y.n = 0 THEN NaN
              ELSE [k |-> "inf", s |-> x.s * Sgn(y.n)]
    ELSE IF y.k = "inf"
         THEN IF x.n = 0 THEN NaN ELSE [k |-> "inf", s |-> y.s * Sgn(x.n)]
    ELSE Frac(x.n * y.n, x.d * y.d)

\* x + y on float64 scalars
FAdd(x, y) ==
    IF x.k = "nan" \/ y.k = "nan" THEN NaN
    ELSE IF x.k = "inf"
         THEN IF y.k = "inf" /\ y.s # x.s THEN NaN ELSE x
    ELSE IF y.k = "inf" THEN y
    ELSE LET l == (x.d \div GCD(x.d, y.d)) * y.d
         IN  Frac(x.n * (l \div x.d) + y.n * (l \div y.d), l)

\* 10 * np.log10(q): kept symbolic for a positive finite q
TenLog10(q) ==
    IF q.k = "nan" THEN NaN
    ELSE IF q.k = "inf" THEN (IF q.s = 1 THEN PosInf ELSE NaN)
    ELSE IF q.n < 0 THEN NaN
    ELSE IF q.n = 0 THEN NegInf
    ELSE [k |-> "dB", arg |-> q]

\* (10 / np.log(10)) * np.sqrt(sq): kept symbolic for a positive finite sq
TenOverLn10Sqrt(sq) ==
    IF sq.k = "nan" THEN NaN
    ELSE IF sq.k = "inf" THEN (IF sq.s = 1 THEN PosInf ELSE NaN)
    ELSE IF sq.n < 0 THEN NaN
    ELSE IF sq.n = 0 THEN Zero
    ELSE [k |-> "err", sq |-> sq]

RECURSIVE SumSq(_)
SumSq(s) == IF s = <<>> THEN 0 ELSE Head(s) * Head(s) + SumSq(Tail(s))

\* np.mean(s ** 2): nan (with a warning) for an empty array
MeanSquare(s) == IF Len(s) = 0 THEN NaN ELSE Frac(SumSq(s), Len(s))


-----------------------------------------------------------------------------
(* Calls.  A call completes with [exc, val]: exc is None and val the        *)
(* returned value, or exc is the exception raised and val is None.          *)

Return(v) == [exc |-> None, val |-> v]

Raise(type, by) == [exc |-> [k |-> "exc", type |-> type, by |-> by], val |-> None]

-----------------------------------------------------------------------------
(* calculate_snr and calculate_average_power_ratio *)

\* error_percentage = 0.005, a local constant of calculate_snr
error_percentage == Frac(5, 1000)

\* a variant that divides the signal's sigma by the noise power
calculate_snr_wrong_sigma(sig, noise) ==
    LET signal_power == MeanSquare(sig)
        noise_power == MeanSquare(noise)
        sigma_signal == FMul(signal_power, error_percentage)
        rs == FDiv(sigma_signal, signal_power)
        rn == FDiv(sigma_signal, noise_power)
    IN  Return([snr |-> TenLog10(FDiv(signal_power, noise_power)),
                snr_error |-> TenOverLn10Sqrt(FAdd(FMul(rs, rs), FMul(rn, rn)))])

\* a variant that reports noise over signal in decibels
calculate_snr_inverted(sig, noise) ==
    LET signal_power == MeanSquare(sig)
        noise_power == MeanSquare(noise)
        rs == FDiv(FMul(signal_power, error_percentage), signal_power)
        rn == FDiv(FMul(noise_power, error_percentage), noise_power)
    IN  Return([snr |-> TenLog10(FDiv(noise_power, signal_power)),
                snr_error |-> TenOverLn10Sqrt(FAdd(FMul(rs, rs), FMul(rn, rn)))])

calculate_snr(sig, noise) ==
    LET signal_power == MeanSquare(sig)
        noise_power == MeanSquare(noise)
        snr_db == TenLog10(FDiv(signal_power, noise_power))
        sigma_signal == FMul(signal_power, error_percentage)
        sigma_noise == FMul(noise_power, error_percentage)
        rs == FDiv(sigma_signal, signal_power)
        rn == FDiv(sigma_noise, noise_power)
    IN  Return([snr |-> snr_db,
                snr_error |-> TenOverLn10Sqrt(FAdd(FMul(rs, rs), FMul(rn, rn)))])

\* a variant that regularises the denominator with a constant
calculate_average_power_ratio_regularised(sig, noise) ==
    LET signal_power == MeanSquare(sig)
        noise_power == MeanSquare(noise)
    IN  Return(FDiv(noise_power, FAdd(signal_power, Frac(1, 1))))

calculate_average_power_ratio(sig, noise) ==
    LET signal_power == MeanSquare(sig)
        noise_power == MeanSquare(noise)
    IN  Return(FDiv(noise_power, signal_power))

-----------------------------------------------------------------------------
(* high_pass_filter *)

\* the sequence of length n that alternates a, b, a, ...
Pattern(n, a, b) == [i \in 1 .. n |-> IF i % 2 = 1 THEN a ELSE b]

\* What filtfilt(b, a, x) may return for an x it accepts.  The filter's
\* arithmetic is scipy's; of its result the model keeps that it has the shape
\* of x and is all zeros for an all-zero x (the filter is linear), and lets
\* it be all zeros or the alternation 1, 0, 1, ... otherwise.
FiltfiltOutputs(x) ==
    IF \A i \in 1 .. Len(x) : x[i] = 0
    THEN {Pattern(Len(x), 0, 0)}
    ELSE {Pattern(Len(x), a, 0) : a \in {0, 1}}

\* padlen of filtfilt by default: 3 * max(len(a), len(b)), and butter returns
\* ord + 1 coefficients in each of b and a
DefaultPadlen(ord) == 3 * (ord + 1)

\* a variant whose filtfilt rejects only inputs shorter than padlen
high_pass_filter_short_pad(sig, cutoff, fs, ord) ==
    IF fs = 0
    THEN {Raise("ZeroDivisionError", "high_pass_filter")}
    ELSE LET normal_cutoff == FDiv(Frac(cutoff, 1), Frac(fs, 2))
         IN  IF ~(normal_cutoff.n > 0 /\ normal_cutoff.n < normal_cutoff.d)
             THEN {Raise("ValueError", "butter")}
             ELSE IF Len(sig) < DefaultPadlen(ord)
             THEN {Raise("ValueError", "filtfilt")}
             ELSE {Return(y) : y \in FiltfiltOutputs(sig)}

\* a variant whose cutoff check lets the Nyquist frequency itself through
high_pass_filter_closed_band(sig, cutoff, fs, ord) ==
    IF fs = 0
    THEN {Raise("ZeroDivisionError", "high_pass_filter")}
    ELSE LET normal_cutoff == FDiv(Frac(cutoff, 1), Frac(fs, 2))
         IN  IF ~(normal_cutoff.n > 0 /\ normal_cutoff.n <= normal_cutoff.d)
             THEN {Raise("ValueError", "butter")}
             ELSE IF Len(sig) <= DefaultPadlen(ord)
             THEN {Raise("ValueError", "filtfilt")}
             ELSE {Return(y) : y \in FiltfiltOutputs(sig)}

\* a variant that returns the padded result without trimming the padding
high_pass_filter_untrimmed(sig, cutoff, fs, ord) ==
    IF fs = 0
    THEN {Raise("ZeroDivisionError", "high_pass_filter")}
    ELSE LET normal_cutoff == FDiv(Frac(cutoff, 1), Frac(fs, 2))
         IN  IF ~(normal_cutoff.n > 0 /\ normal_cutoff.n < normal_cutoff.d)
             THEN {Raise("ValueError", "butter")}
             ELSE IF Len(sig) <= DefaultPadlen(ord)
             THEN {Raise("ValueError", "filtfilt")}
             ELSE {Return(Pattern(DefaultPadlen(ord), 0, 0) \o y
                          \o Pattern(DefaultPadlen(ord), 0, 0))
                   : y \in FiltfiltOutputs(sig)}

\* The completions of high_pass_filter(signal, cutoff, fs, order):
\*   nyquist = 0.5 * fs; normal_cutoff = cutoff / nyquist   (ZeroDivisionError
\*     for fs = 0)
\*   butter(order, normal_cutoff, btype='high') raises ValueError unless
\*     0 < normal_cutoff < 1
\*   filtfilt(b, a, signal) raises ValueError unless len(signal) > padlen
high_pass_filter(sig, cutoff, fs, ord) ==
    IF fs = 0
    THEN {Raise("ZeroDivisionError", "high_pass_filter")}
    ELSE LET nyquist == Frac(fs, 2)
             normal_cutoff == FDiv(Frac(cutoff, 1), nyquist)
         IN  IF ~(normal_cutoff.n > 0 /\ normal_cutoff.n < normal_cutoff.d)
             THEN {Raise("ValueError", "butter")}
             ELSE IF Len(sig) <= DefaultPadlen(ord)
             THEN {Raise("ValueError", "filtfilt")}
             ELSE {Return(y) : y \in FiltfiltOutputs(sig)}

-----------------------------------------------------------------------------
(* Direct calls of the estimator: calculate_snr, then                       *)
(* calculate_average_power_ratio, on any two sequences.                     *)

Amp == -1 .. MaxAmp

SeqsUpTo(S, n) == UNION {[1 .. m -> S] : m \in 0 .. n}

\* the error fractions a caller may want: 0.001, 0.005, 0.05
ErrorFractions == {Frac(1, 1000), Frac(5, 1000), Frac(50, 1000)}

Idle ==
    /\ dir_listing = <<>>
    /\ normcase_folds = FALSE
    /\ output_dir_exists = FALSE
    /\ csv_files = <<>>
    /\ idx = 0
    /\ time = None
    /\ log = <<>>
    /\ stdout = <<>>
    /\ plots = <<>>
    /\ exit_status = None
    /\ calls = <<>>
    /\ scale = 1
    /\ intensity = None
    /\ normalized_intensity = None
    /\ displacement = None

EstInit ==
    /\ Idle
    /\ cutoff_frequency = 50
    /\ sampling_frequency = 1000
    /\ pc = "estimate"
    /\ signal \in SeqsUpTo(Amp, MaxLen)
    /\ estimated_noise \in SeqsUpTo(Amp, MaxLen)
    /\ e_supplied \in ErrorFractions
    /\ order = 5
    /\ snr = None
    /\ snr_error = None
    /\ power_ratio = None
    /\ exc = None

EstCalculateSnr ==
    /\ pc = "estimate"
    /\ LET r == calculate_snr(signal, estimated_noise)
       IN  IF r.exc # None
           THEN /\ exc' = r.exc
                /\ pc' = "estimate_raised"
                /\ UNCHANGED <<snr, snr_error>>
           ELSE /\ snr' = r.val.snr
                /\ snr_error' = r.val.snr_error
                /\ pc' = "estimate_ratio"
                /\ exc' = exc
    /\ UNCHANGED <<intensity, normalized_intensity, displacement,
                   dir_listing, normcase_folds, cutoff_frequency,
                   sampling_frequency, output_dir_exists, csv_files, idx, time,
                   signal, estimated_noise, power_ratio, log, stdout, plots,
                   exit_status, order, e_supplied, calls, scale>>

EstCalculateRatio ==
    /\ pc = "estimate_ratio"
    /\ LET r == calculate_average_power_ratio(signal, estimated_noise)
       IN  IF r.exc # None
           THEN /\ exc' = r.exc
                /\ pc' = "estimate_raised"
                /\ UNCHANGED power_ratio
           ELSE /\ power_ratio' = r.val
                /\ pc' = "estimate_returned"
                /\ exc' = exc
    /\ UNCHANGED <<intensity, normalized_intensity, displacement,
                   dir_listing, normcase_folds, cutoff_frequency,
                   sampling_frequency, output_dir_exists, csv_files, idx, time,
                   signal, estimated_noise, snr, snr_error, log, stdout, plots,
                   exit_status, order, e_supplied, calls, scale>>

EstNext == EstCalculateSnr \/ EstCalculateRatio

EstSpec == EstInit /\ [][EstNext]_vars

-----------------------------------------------------------------------------
(* Direct calls of high_pass_filter on any sequence, cutoff and order *)

Cutoffs == {-50, 0, 50, 499, 500, 600}

SamplingRates == {1000}

Orders == {1, 2, 5}

SepInit ==
    /\ Idle
    /\ cutoff_frequency \in Cutoffs
    /\ sampling_frequency \in SamplingRates
    /\ pc = "separate"
    /\ signal \in {Pattern(n, a, b) : n \in 0 .. MaxSepLen, a, b \in {0, 1}}
    /\ estimated_noise = None
    /\ order \in Orders
    /\ e_supplied = error_percentage
    /\ snr = None
    /\ snr_error = None
    /\ power_ratio = None
    /\ exc = None

SepHighPassFilter ==
    /\ pc = "separate"
    /\ \E r \in high_pass_filter(signal, cutoff_frequency, sampling_frequency, order) :
          IF r.exc # None
          THEN /\ exc' = r.exc
               /\ pc' = "separate_raised"
               /\ UNCHANGED estimated_noise
          ELSE /\ estimated_noise' = r.val
               /\ pc' = "separate_returned"
               /\ exc' = exc
    /\ UNCHANGED <<intensity, normalized_intensity, displacement,
                   dir_listing, normcase_folds, cutoff_frequency,
                   sampling_frequency, output_dir_exists, csv_files, idx, time,
                   signal, snr, snr_error, power_ratio, log, stdout, plots,
                   exit_status, order, e_supplied, calls, scale>>

SepNext == SepHighPassFilter

SepSpec == SepInit /\ [][SepNext]_vars

-----------------------------------------------------------------------------
(* process_files, and the script's top-level call of it *)

Extensions == {"csv", "CSV", "txt"}

\* the files input_dir may hold: file i is named i with one of the extensions
DirListings ==
    UNION {{[i \in 1 .. n |-> [name |-> i, ext |-> f[i]]] : f \in [1 .. n -> Extensions]}
           : n \in 0 .. MaxFiles}

\* the values the script may hand to process_files as cutoff_frequency
\* (50 is the script's own; 500 is the Nyquist frequency of its 1000 Hz)
DriverCutoffs == {50, 500}

\* high_pass_filter(signal, cutoff, fs) is called without an order: order=5
DefaultOrder == 5

\* the Signal columns a readable file may hold: too short for filtfilt
\* (padlen samples), or just long enough (padlen + 1) and all zero or not
FileSignals ==
    {Pattern(DefaultPadlen(DefaultOrder), 1, 1),
     Pattern(DefaultPadlen(DefaultOrder) + 1, 0, 0),
     Pattern(DefaultPadlen(DefaultOrder) + 1, 1, 1)}

\* fnmatch of a file's extension against that of the pattern: both are passed
\* through os.path.normcase, which folds case on Windows only
ExtMatches(ext, pat) ==
    IF normcase_folds
    THEN (ext \in {"csv", "CSV"}) /\ (pat \in {"csv", "CSV"})
    ELSE ext = pat

\* glob.glob(os.path.join(input_dir, '*.' + pat)): the matching files, in
\* directory order
Glob(pat) == SelectSeq(dir_listing, LAMBDA f : ExtMatches(f.ext, pat))

Init ==
    /\ dir_listing \in DirListings
    /\ normcase_folds \in BOOLEAN
    /\ cutoff_frequency \in DriverCutoffs
    /\ sampling_frequency = 1000
    /\ pc = "makedirs"
    /\ output_dir_exists = FALSE
    /\ csv_files = <<>>
    /\ idx = 0
    /\ time = None
    /\ signal = None
    /\ estimated_noise = None
    /\ snr = None
    /\ snr_error = None
    /\ power_ratio = None
    /\ exc = None
    /\ log = <<>>
    /\ stdout = <<>>
    /\ plots = <<>>
    /\ exit_status = None
    /\ order = DefaultOrder
    /\ e_supplied = error_percentage
    /\ calls = <<>>
    /\ scale = 1
    /\ intensity = None
    /\ normalized_intensity = None
    /\ displacement = None

file_path == csv_files[idx]

\* the for loop takes the next file, or the function returns
NextFile ==
    /\ idx' = idx + 1
    /\ pc' = IF idx + 1 > Len(csv_files) THEN "return" ELSE "load"

\* a variant of the handler that logs and then leaves the loop
HandleExceptionAndStop(e) ==
    /\ exc' = e
    /\ log' = Append(log, [level |-> "ERROR", msg |-> "Error processing",
                           file |-> file_path, cause |-> e])
    /\ idx' = idx
    /\ pc' = "return"

\* except Exception as e: logging.error(f"Error processing {file_path}: {e}"),
\* then the loop goes on
HandleException(e) ==
    /\ exc' = e
    /\ log' = Append(log, [level |-> "ERROR", msg |-> "Error processing",
                           file |-> file_path, cause |-> e])
    /\ NextFile


\* a variant that goes on to the discovery without creating the directory
MakedirsSkipped ==
    /\ pc = "makedirs"
    /\ \/ /\ pc' = "glob"
          /\ UNCHANGED <<output_dir_exists, exc, exit_status>>
       \/ /\ exc' = Raise("OSError", "makedirs").exc
          /\ pc' = "exited"
          /\ exit_status' = 1
          /\ UNCHANGED output_dir_exists
    /\ UNCHANGED <<intensity, normalized_intensity, displacement,
                   dir_listing, normcase_folds, cutoff_frequency,
                   sampling_frequency, csv_files, idx, time, signal,
                   estimated_noise, snr, snr_error, power_ratio, log, stdout,
                   plots, order, e_supplied, calls, scale>>

\* logging.basicConfig(...); os.makedirs(output_dir, exist_ok=True), which is
\* outside any try: an OSError ends the script with a traceback and status 1
Makedirs ==
    /\ pc = "makedirs"
    /\ \/ /\ output_dir_exists' = TRUE
          /\ pc' = "glob"
          /\ UNCHANGED <<exc, exit_status>>
       \/ /\ exc' = Raise("OSError", "makedirs").exc
          /\ pc' = "exited"
          /\ exit_status' = 1
          /\ UNCHANGED output_dir_exists
    /\ UNCHANGED <<intensity, normalized_intensity, displacement,
                   dir_listing, normcase_folds, cutoff_frequency,
                   sampling_frequency, csv_files, idx, time, signal,
                   estimated_noise, snr, snr_error, power_ratio, log, stdout,
                   plots, order, e_supplied, calls, scale>>

\* csv_files = glob('*.csv') + glob('*.CSV'); if not csv_files: log and return
Discover ==
    /\ pc = "glob"
    /\ csv_files' = Glob("csv") \o Glob("CSV")
    /\ IF csv_files' = <<>>
       THEN /\ log' = Append(log, [level |-> "INFO", msg |-> "No CSV files found",
                                   file |-> None, cause |-> None])
            /\ pc' = "return"
            /\ idx' = idx
       ELSE /\ log' = log
            /\ idx' = 1
            /\ pc' = "load"
    /\ UNCHANGED <<intensity, normalized_intensity, displacement,
                   dir_listing, normcase_folds, cutoff_frequency,
                   sampling_frequency, output_dir_exists, time, signal,
                   estimated_noise, snr, snr_error, power_ratio, exc, stdout,
                   plots, exit_status, order, e_supplied, calls, scale>>

\* time, signal = load_data(file_path): pd.read_csv or the column lookups
\* raise for an unreadable file, else the file's columns are returned
Load ==
    /\ pc = "load"
    /\ \/ /\ HandleException(Raise("KeyError", "load_data").exc)
          /\ UNCHANGED <<time, signal>>
       \/ \E s \in FileSignals :
             /\ signal' = s
             /\ time' = [i \in 1 .. Len(s) |-> i]
             /\ pc' = "filter"
             /\ UNCHANGED <<exc, log, idx>>
    /\ UNCHANGED <<intensity, normalized_intensity, displacement,
                   dir_listing, normcase_folds, cutoff_frequency,
                   sampling_frequency, output_dir_exists, csv_files,
                   estimated_noise, snr, snr_error, power_ratio, stdout, plots,
                   exit_status, order, e_supplied, calls, scale>>

\* a variant that goes on to calculate_snr when high_pass_filter raised
FilterSwallowingError ==
    /\ pc = "filter"
    /\ \E r \in high_pass_filter(signal, cutoff_frequency, sampling_frequency, DefaultOrder) :
          /\ estimated_noise' = IF r.exc # None THEN estimated_noise ELSE r.val
          /\ pc' = "snr"
          /\ UNCHANGED <<exc, log, idx>>
    /\ UNCHANGED <<intensity, normalized_intensity, displacement,
                   dir_listing, normcase_folds, cutoff_frequency,
                   sampling_frequency, output_dir_exists, csv_files, time,
                   signal, snr, snr_error, power_ratio, stdout, plots,
                   exit_status, order, e_supplied, calls, scale>>


\* a variant that hands the order the caller wants to high_pass_filter
FilterWithCallerOrder ==
    /\ pc = "filter"
    /\ \E r \in high_pass_filter(signal, cutoff_frequency, sampling_frequency, order) :
          IF r.exc # None
          THEN /\ HandleException(r.exc)
               /\ UNCHANGED estimated_noise
          ELSE /\ estimated_noise' = r.val
               /\ pc' = "snr"
               /\ UNCHANGED <<exc, log, idx>>
    /\ UNCHANGED <<intensity, normalized_intensity, displacement,
                   dir_listing, normcase_folds, cutoff_frequency,
                   sampling_frequency, output_dir_exists, csv_files, time,
                   signal, snr, snr_error, power_ratio, stdout, plots,
                   exit_status, order, e_supplied, calls, scale>>

\* estimated_noise = high_pass_filter(signal, cutoff_frequency, sampling_frequency)
Filter ==
    /\ pc = "filter"
    /\ \E r \in high_pass_filter(signal, cutoff_frequency, sampling_frequency, DefaultOrder) :
          IF r.exc # None
          THEN /\ HandleException(r.exc)
               /\ UNCHANGED estimated_noise
          ELSE /\ estimated_noise' = r.val
               /\ pc' = "snr"
               /\ UNCHANGED <<exc, log, idx>>
    /\ UNCHANGED <<intensity, normalized_intensity, displacement,
                   dir_listing, normcase_folds, cutoff_frequency,
                   sampling_frequency, output_dir_exists, csv_files, time,
                   signal, snr, snr_error, power_ratio, stdout, plots,
                   exit_status, order, e_supplied, calls, scale>>

\* snr, snr_error = calculate_snr(signal, estimated_noise)
Snr ==
    /\ pc = "snr"
    /\ LET r == calculate_snr(signal, estimated_noise)
       IN  IF r.exc # None
           THEN /\ HandleException(r.exc)
                /\ UNCHANGED <<snr, snr_error>>
           ELSE /\ snr' = r.val.snr
                /\ snr_error' = r.val.snr_error
                /\ pc' = "ratio"
                /\ UNCHANGED <<exc, log, idx>>
    /\ UNCHANGED <<intensity, normalized_intensity, displacement,
                   dir_listing, normcase_folds, cutoff_frequency,
                   sampling_frequency, output_dir_exists, csv_files, time,
                   signal, estimated_noise, power_ratio, stdout, plots,
                   exit_status, order, e_supplied, calls, scale>>

\* power_ratio = calculate_average_power_ratio(signal, estimated_noise)
Ratio ==
    /\ pc = "ratio"
    /\ LET r == calculate_average_power_ratio(signal, estimated_noise)
       IN  IF r.exc # None
           THEN /\ HandleException(r.exc)
                /\ UNCHANGED power_ratio
           ELSE /\ power_ratio' = r.val
                /\ pc' = "print"
                /\ UNCHANGED <<exc, log, idx>>
    /\ UNCHANGED <<intensity, normalized_intensity, displacement,
                   dir_listing, normcase_folds, cutoff_frequency,
                   sampling_frequency, output_dir_exists, csv_files, time,
                   signal, estimated_noise, snr, snr_error, stdout, plots,
                   exit_status, order, e_supplied, calls, scale>>

\* the four print calls: the file's results (the values of snr, snr_error
\* and power_ratio at this point) go to the terminal; stdout keeps which
\* file's block was printed
PrintResults ==
    /\ pc = "print"
    /\ stdout' = Append(stdout, [line |-> "Results", file |-> file_path])
    /\ pc' = "plot"
    /\ UNCHANGED <<intensity, normalized_intensity, displacement,
                   dir_listing, normcase_folds, cutoff_frequency,
                   sampling_frequency, output_dir_exists, csv_files, idx, time,
                   signal, estimated_noise, snr, snr_error, power_ratio, exc,
                   log, plots, exit_status, order, e_supplied, calls, scale>>


\* a variant whose failing branch has written the plot file all the same
PlotSavingOnFailure ==
    /\ pc = "plot"
    /\ \/ /\ plots' = Append(plots, file_path)
          /\ stdout' = Append(stdout, [line |-> "Saved plot", file |-> file_path])
          /\ pc' = "log_processed"
          /\ UNCHANGED <<exc, log, idx>>
       \/ /\ HandleException(Raise("OSError", "savefig").exc)
          /\ plots' = Append(plots, file_path)
          /\ UNCHANGED stdout
    /\ UNCHANGED <<intensity, normalized_intensity, displacement,
                   dir_listing, normcase_folds, cutoff_frequency,
                   sampling_frequency, output_dir_exists, csv_files, time,
                   signal, estimated_noise, snr, snr_error, power_ratio,
                   exit_status, order, e_supplied, calls, scale>>

\* plot_signal_and_noise(...): plt.savefig writes the file and the function
\* prints "Saved plot", or savefig raises and nothing is saved
Plot ==
    /\ pc = "plot"
    /\ \/ /\ plots' = Append(plots, file_path)
          /\ stdout' = Append(stdout, [line |-> "Saved plot", file |-> file_path])
          /\ pc' = "log_processed"
          /\ UNCHANGED <<exc, log, idx>>
       \/ /\ HandleException(Raise("OSError", "savefig").exc)
          /\ UNCHANGED <<plots, stdout>>
    /\ UNCHANGED <<intensity, normalized_intensity, displacement,
                   dir_listing, normcase_folds, cutoff_frequency,
                   sampling_frequency, output_dir_exists, csv_files, time,
                   signal, estimated_noise, snr, snr_error, power_ratio,
                   exit_status, order, e_supplied, calls, scale>>

\* logging.info(f"Processed {file_path}"), the last statement of the try body
LogProcessed ==
    /\ pc = "log_processed"
    /\ log' = Append(log, [level |-> "INFO", msg |-> "Processed",
                           file |-> file_path, cause |-> None])
    /\ NextFile
    /\ UNCHANGED <<intensity, normalized_intensity, displacement,
                   dir_listing, normcase_folds, cutoff_frequency,
                   sampling_frequency, output_dir_exists, csv_files, time,
                   signal, estimated_noise, snr, snr_error, power_ratio, exc,
                   stdout, plots, exit_status, order, e_supplied, calls, scale>>

\* process_files returns None to the top level, where the call is the last
\* statement: the interpreter exits with status 0
ScriptEnds ==
    /\ pc = "return"
    /\ pc' = "exited"
    /\ exit_status' = 0
    /\ UNCHANGED <<intensity, normalized_intensity, displacement,
                   dir_listing, normcase_folds, cutoff_frequency,
                   sampling_frequency, output_dir_exists, csv_files, idx, time,
                   signal, estimated_noise, snr, snr_error, power_ratio, exc,
                   log, stdout, plots, order, e_supplied, calls, scale>>

Next ==
    \/ Makedirs
    \/ Discover
    \/ Load
    \/ Filter
    \/ Snr
    \/ Ratio
    \/ PrintResults
    \/ Plot
    \/ LogProcessed
    \/ ScriptEnds

Spec == Init /\ [][Next]_vars

IsNonZeroPower(x) == x.k = "fin" /\ x.n > 0

-----------------------------------------------------------------------------
(* One run of process_files on a directory holding one CSV file, by a      *)
(* caller who wants a cutoff, a sampling rate, a filter order and an error *)
(* fraction for the run.  process_files takes the first two as arguments;  *)
(* order and e_supplied are what the caller wants for the other two.       *)

\* cutoff_frequency = 50 and sampling_frequency = 1000 of the script's own call
ScriptCutoff == 50

ScriptRate == 1000

RunInit ==
    /\ dir_listing = <<[name |-> 1, ext |-> "csv"]>>
    /\ normcase_folds = FALSE
    /\ cutoff_frequency \in {ScriptCutoff, 500}
    /\ sampling_frequency \in {ScriptRate, 2000}
    /\ order \in Orders
    /\ e_supplied \in ErrorFractions
    /\ pc = "makedirs"
    /\ output_dir_exists = FALSE
    /\ csv_files = <<>>
    /\ idx = 0
    /\ time = None
    /\ signal = None
    /\ estimated_noise = None
    /\ snr = None
    /\ snr_error = None
    /\ power_ratio = None
    /\ exc = None
    /\ log = <<>>
    /\ stdout = <<>>
    /\ plots = <<>>
    /\ exit_status = None
    /\ calls = <<>>
    /\ scale = 1
    /\ intensity = None
    /\ normalized_intensity = None
    /\ displacement = None

RunSpec == RunInit /\ [][Next]_vars

-----------------------------------------------------------------------------
(* The strain script: normalize_intensity, then calculate_displacement, as *)
(* the loop body of process_datasets calls them on the intensity array it  *)
(* loaded.                                                                 *)

\* I0 = 1, the maximum intensity
I0 == 1

RECURSIVE SeqMin(_)
SeqMin(s) ==
    IF Len(s) = 1 THEN s[1]
    ELSE LET m == SeqMin(Tail(s)) IN IF s[1] < m THEN s[1] ELSE m

RECURSIVE SeqMax(_)
SeqMax(s) ==
    IF Len(s) = 1 THEN s[1]
    ELSE LET m == SeqMax(Tail(s)) IN IF s[1] > m THEN s[1] ELSE m

\* a variant that divides by the maximum instead of the range
normalize_intensity_by_max(a) ==
    IF a = <<>>
    THEN Raise("ValueError", "np.min")
    ELSE LET min_intensity == SeqMin(a)
             max_intensity == SeqMax(a)
         IN  Return([i \in 1 .. Len(a) |->
                        FDiv(Frac(a[i] - min_intensity, 1), Frac(max_intensity, 1))])

\* (intensity - min) / (max - min), elementwise; np.min raises ValueError
\* for an empty array, and a constant array gives 0/0 = nan everywhere
normalize_intensity(a) ==
    IF a = <<>>
    THEN Raise("ValueError", "np.min")
    ELSE LET min_intensity == SeqMin(a)
             max_intensity == SeqMax(a)
         IN  Return([i \in 1 .. Len(a) |->
                        FDiv(Frac(a[i] - min_intensity, 1),
                             Frac(max_intensity - min_intensity, 1))])

\* np.arccos(x): nan (with a warning) outside [-1, 1], else kept symbolic
ArcCos(x) ==
    IF x.k # "fin" THEN NaN
    ELSE IF x.n < -x.d \/ x.n > x.d THEN NaN
    ELSE [k |-> "arccos", arg |-> x]

\* (wavelength / (4 * np.pi)) * np.arccos((intensity - I0) / I0), elementwise:
\* the positive factor is kept symbolic with the arccos
calculate_displacement(a) ==
    [i \in 1 .. Len(a) |-> ArcCos(FDiv(FAdd(a[i], Frac(-I0, 1)), Frac(I0, 1)))]

StrainInit ==
    /\ dir_listing = <<>>
    /\ normcase_folds = FALSE
    /\ cutoff_frequency = ScriptCutoff
    /\ sampling_frequency = ScriptRate
    /\ pc = "normalize"
    /\ output_dir_exists = TRUE
    /\ csv_files = <<>>
    /\ idx = 0
    /\ time = None
    /\ signal = None
    /\ estimated_noise = None
    /\ snr = None
    /\ snr_error = None
    /\ power_ratio = None
    /\ exc = None
    /\ log = <<>>
    /\ stdout = <<>>
    /\ plots = <<>>
    /\ exit_status = None
    /\ order = DefaultOrder
    /\ e_supplied = error_percentage
    /\ calls = <<>>
    /\ scale = 1
    /\ intensity \in SeqsUpTo(Amp, MaxSamples)
    /\ normalized_intensity = None
    /\ displacement = None

\* normalized_intensity = normalize_intensity(intensity); process_datasets
\* has no try: an exception ends the script
StrainNormalize ==
    /\ pc = "normalize"
    /\ LET r == normalize_intensity(intensity)
       IN  IF r.exc # None
           THEN /\ exc' = r.exc
                /\ pc' = "strain_raised"
                /\ UNCHANGED normalized_intensity
           ELSE /\ normalized_intensity' = r.val
                /\ pc' = "displacement"
                /\ exc' = exc
    /\ UNCHANGED <<intensity, displacement>>
    /\ UNCHANGED <<dir_listing, normcase_folds, cutoff_frequency,
                   sampling_frequency, output_dir_exists, csv_files, idx, time,
                   signal, estimated_noise, snr, snr_error, power_ratio,
                   log, stdout, plots, exit_status, order, e_supplied, calls,
                   scale>>

\* displacement = calculate_displacement(normalized_intensity)
StrainDisplacement ==
    /\ pc = "displacement"
    /\ displacement' = calculate_displacement(normalized_intensity)
    /\ pc' = "strain"
    /\ UNCHANGED <<intensity, normalized_intensity>>
    /\ UNCHANGED <<dir_listing, normcase_folds, cutoff_frequency,
                   sampling_frequency, output_dir_exists, csv_files, idx, time,
                   signal, estimated_noise, snr, snr_error, power_ratio, exc,
                   log, stdout, plots, exit_status, order, e_supplied, calls,
                   scale>>

StrainNext == StrainNormalize \/ StrainDisplacement

StrainSpec == StrainInit /\ [][StrainNext]_vars

-----------------------------------------------------------------------------
(* A caller that invokes the estimator's functions repeatedly, in any      *)
(* order, on two arrays it holds, and between calls may replace both       *)
(* arrays by the same non-zero multiple or take the originals back.        *)

MaxCalls == 3      \* most direct calls in one behaviour

\* the non-zero constants the caller may scale by
Scales == {-1, 3}

\* the arrays the caller may hold: one or two samples, alternating
CallerArrays == {Pattern(n, a, b) : n \in 1 .. 2, a, b \in {-1, 0, 2}}

\* c * s for an array s
Scale(c, s) == [i \in 1 .. Len(s) |-> c * s[i]]

CallsInit ==
    /\ dir_listing = <<>>
    /\ normcase_folds = FALSE
    /\ output_dir_exists = FALSE
    /\ csv_files = <<>>
    /\ idx = 0
    /\ time = None
    /\ log = <<>>
    /\ stdout = <<>>
    /\ plots = <<>>
    /\ exit_status = None
    /\ cutoff_frequency = 50
    /\ sampling_frequency = 1000
    /\ pc = "caller"
    /\ signal \in CallerArrays
    /\ estimated_noise \in CallerArrays
    /\ e_supplied = error_percentage
    /\ order = DefaultOrder
    /\ snr = None
    /\ snr_error = None
    /\ power_ratio = None
    /\ exc = None
    /\ calls = <<>>
    /\ scale = 1
    /\ intensity = None
    /\ normalized_intensity = None
    /\ displacement = None

\* a variant of the call that squares its signal argument in place
CallSnrInPlace ==
    /\ pc = "caller"
    /\ Len(calls) < MaxCalls
    /\ LET r == calculate_snr(signal, estimated_noise)
       IN  /\ calls' = Append(calls, [fn |-> "calculate_snr", sig |-> signal,
                                      noise |-> estimated_noise, scale |-> scale,
                                      res |-> r])
           /\ exc' = r.exc
           /\ snr' = IF r.exc = None THEN r.val.snr ELSE snr
           /\ snr_error' = IF r.exc = None THEN r.val.snr_error ELSE snr_error
    /\ signal' = [i \in 1 .. Len(signal) |-> signal[i] * signal[i]]
    /\ UNCHANGED <<intensity, normalized_intensity, displacement,
                   dir_listing, normcase_folds, cutoff_frequency,
                   sampling_frequency, pc, output_dir_exists, csv_files, idx,
                   time, estimated_noise, power_ratio, log, stdout,
                   plots, exit_status, order, e_supplied, scale>>

\* snr, snr_error = calculate_snr(signal, noise): signal ** 2 and noise ** 2
\* are new arrays, the arguments are only read
CallSnr ==
    /\ pc = "caller"
    /\ Len(calls) < MaxCalls
    /\ LET r == calculate_snr(signal, estimated_noise)
       IN  /\ calls' = Append(calls, [fn |-> "calculate_snr", sig |-> signal,
                                      noise |-> estimated_noise, scale |-> scale,
                                      res |-> r])
           /\ exc' = r.exc
           /\ snr' = IF r.exc = None THEN r.val.snr ELSE snr
           /\ snr_error' = IF r.exc = None THEN r.val.snr_error ELSE snr_error
    /\ UNCHANGED <<intensity, normalized_intensity, displacement,
                   dir_listing, normcase_folds, cutoff_frequency,
                   sampling_frequency, pc, output_dir_exists, csv_files, idx,
                   time, signal, estimated_noise, power_ratio, log, stdout,
                   plots, exit_status, order, e_supplied, scale>>

\* power_ratio = calculate_average_power_ratio(signal, noise)
CallRatio ==
    /\ pc = "caller"
    /\ Len(calls) < MaxCalls
    /\ LET r == calculate_average_power_ratio(signal, estimated_noise)
       IN  /\ calls' = Append(calls, [fn |-> "calculate_average_power_ratio",
                                      sig |-> signal, noise |-> estimated_noise,
                                      scale |-> scale, res |-> r])
           /\ exc' = r.exc
           /\ power_ratio' = IF r.exc = None THEN r.val ELSE power_ratio
    /\ UNCHANGED <<intensity, normalized_intensity, displacement,
                   dir_listing, normcase_folds, cutoff_frequency,
                   sampling_frequency, pc, output_dir_exists, csv_files, idx,
                   time, signal, estimated_noise, snr, snr_error, log, stdout,
                   plots, exit_status, order, e_supplied, scale>>

\* the caller replaces both arrays by c times themselves
ScaleInputs ==
    /\ pc = "caller"
    /\ scale = 1
    /\ \E c \in Scales :
          /\ scale' = c
          /\ signal' = Scale(c, signal)
          /\ estimated_noise' = Scale(c, estimated_noise)
    /\ UNCHANGED <<intensity, normalized_intensity, displacement,
                   dir_listing, normcase_folds, cutoff_frequency,
                   sampling_frequency, pc, output_dir_exists, csv_files, idx,
                   time, snr, snr_error, power_ratio, exc, log, stdout, plots,
                   exit_status, order, e_supplied, calls>>

\* the caller takes the arrays it scaled from back
RestoreInputs ==
    /\ pc = "caller"
    /\ scale # 1
    /\ Len(calls) < MaxCalls
    /\ calls # <<>>
    /\ calls[Len(calls)].scale = scale
    /\ scale' = 1
    /\ signal' = [i \in 1 .. Len(signal) |-> signal[i] \div scale]
    /\ estimated_noise' = [i \in 1 .. Len(estimated_noise) |-> estimated_noise[i] \div scale]
    /\ UNCHANGED <<intensity, normalized_intensity, displacement,
                   dir_listing, normcase_folds, cutoff_frequency,
                   sampling_frequency, pc, output_dir_exists, csv_files, idx,
                   time, snr, snr_error, power_ratio, exc, log, stdout, plots,
                   exit_status, order, e_supplied, calls>>

CallsNext == CallSnr \/ CallRatio \/ ScaleInputs \/ RestoreInputs

CallsSpec == CallsInit /\ [][CallsNext]_vars

-----------------------------------------------------------------------------
(* The pipeline on a pure tone.  A sampled sine has no integer samples, so  *)
(* a tone is kept by its frequency, squared amplitude and sample count, and *)
(* the filter by its magnitude response.  Over a whole number of periods    *)
(* the mean square of A*sin is A^2/2.  filtfilt runs the filter forward and *)
(* backward: the steady-state output is the same tone with its amplitude    *)
(* multiplied by |H(f)|^2 (edge transients are left out).                   *)

Tone(f, amp2, n) == [k |-> "tone", f |-> f, amp2 |-> amp2, n |-> n]

\* np.mean(t ** 2) for a tone t
TonePower(t) == FMul(t.amp2, Frac(1, 2))

\* a variant for btype='low': the response of the low-pass design
ButterLowGainBounds(f, fc, ord) ==
    LET K == 2 ^ (2 * ord)
    IN  IF 2 * fc <= f THEN [lo |-> Zero, hi |-> Frac(1, K + 1)]
        ELSE IF fc < f THEN [lo |-> Zero, hi |-> Frac(1, 2)]
        ELSE IF fc = f THEN [lo |-> Frac(1, 2), hi |-> Frac(1, 2)]
        ELSE IF fc < 2 * f THEN [lo |-> Frac(1, 2), hi |-> Frac(1, 1)]
        ELSE [lo |-> Frac(K, K + 1), hi |-> Frac(1, 1)]

\* Bounds on |H(f)|^2 of butter(ord, fc / nyquist, btype='high') at a tone
\* frequency 0 < f < nyquist.  The bilinear design has
\*     |H(f)|^2 = 1 / (1 + (tan(pi*fc/fs) / tan(pi*f/fs)) ^ (2*ord)),
\* which is 1/2 at f = fc and grows with f; tan(2x) > 2 tan(x) on (0, pi/4)
\* bounds the quotient of tangents by 1/2 for f >= 2 fc and by 2 from below
\* for f <= fc / 2.
ButterHighGainBounds(f, fc, ord) ==
    LET K == 2 ^ (2 * ord)
    IN  IF 2 * fc <= f THEN [lo |-> Frac(K, K + 1), hi |-> Frac(1, 1)]
        ELSE IF fc < f THEN [lo |-> Frac(1, 2), hi |-> Frac(1, 1)]
        ELSE IF fc = f THEN [lo |-> Frac(1, 2), hi |-> Frac(1, 2)]
        ELSE IF fc < 2 * f THEN [lo |-> Zero, hi |-> Frac(1, 2)]
        ELSE [lo |-> Zero, hi |-> Frac(1, K + 1)]

\* high_pass_filter(signal, cutoff, fs, order) for a tone below nyquist: the
\* same exceptions as for any array; the result is the tone scaled by a
\* squared-magnitude g within the bounds (the two ends are tried)
high_pass_filter_tone(t, cutoff, fs, ord) ==
    IF fs = 0
    THEN {Raise("ZeroDivisionError", "high_pass_filter")}
    ELSE LET nyquist == Frac(fs, 2)
             normal_cutoff == FDiv(Frac(cutoff, 1), nyquist)
             bounds == ButterHighGainBounds(t.f, cutoff, ord)
         IN  IF ~(normal_cutoff.n > 0 /\ normal_cutoff.n < normal_cutoff.d)
             THEN {Raise("ValueError", "butter")}
             ELSE IF t.n <= DefaultPadlen(ord)
             THEN {Raise("ValueError", "filtfilt")}
             ELSE {Return(Tone(t.f, FMul(t.amp2, FMul(g, g)), t.n))
                   : g \in {bounds.lo, bounds.hi}}

ToneFreqs == {25, 50, 100, 200}

ToneCutoffs == {50, 100, 500}

ToneAmps == {1, 2}

\* sample counts holding whole periods of every tone at 1000 Hz
ToneLens == {40, 1000}

ToneInit ==
    /\ Idle
    /\ cutoff_frequency \in ToneCutoffs
    /\ sampling_frequency = 1000
    /\ pc = "tone_filter"
    /\ signal \in {Tone(f, Frac(a * a, 1), n) : f \in ToneFreqs, a \in ToneAmps,
                                               n \in ToneLens}
    /\ estimated_noise = None
    /\ order \in Orders
    /\ e_supplied = error_percentage
    /\ snr = None
    /\ snr_error = None
    /\ power_ratio = None
    /\ exc = None

\* estimated_noise = high_pass_filter(signal, cutoff, fs, order)
ToneFilter ==
    /\ pc = "tone_filter"
    /\ \E r \in high_pass_filter_tone(signal, cutoff_frequency, sampling_frequency,
                                       order) :
          IF r.exc # None
          THEN /\ exc' = r.exc
               /\ pc' = "tone_raised"
               /\ UNCHANGED estimated_noise
          ELSE /\ estimated_noise' = r.val
               /\ pc' = "tone_snr"
               /\ exc' = exc
    /\ UNCHANGED <<intensity, normalized_intensity, displacement,
                   dir_listing, normcase_folds, cutoff_frequency,
                   sampling_frequency, output_dir_exists, csv_files, idx, time,
                   signal, snr, snr_error, power_ratio, log, stdout, plots,
                   exit_status, order, e_supplied, calls, scale>>

\* snr, snr_error = calculate_snr(signal, estimated_noise), on the powers
ToneSnr ==
    /\ pc = "tone_snr"
    /\ LET signal_power == TonePower(signal)
           noise_power == TonePower(estimated_noise)
           rs == FDiv(FMul(signal_power, error_percentage), signal_power)
           rn == FDiv(FMul(noise_power, error_percentage), noise_power)
       IN  /\ snr' = TenLog10(FDiv(signal_power, noise_power))
           /\ snr_error' = TenOverLn10Sqrt(FAdd(FMul(rs, rs), FMul(rn, rn)))
    /\ pc' = "tone_ratio"
    /\ UNCHANGED <<intensity, normalized_intensity, displacement,
                   dir_listing, normcase_folds, cutoff_frequency,
                   sampling_frequency, output_dir_exists, csv_files, idx, time,
                   signal, estimated_noise, power_ratio, exc, log, stdout,
                   plots, exit_status, order, e_supplied, calls, scale>>

\* power_ratio = calculate_average_power_ratio(signal, estimated_noise)
ToneRatio ==
    /\ pc = "tone_ratio"
    /\ power_ratio' = FDiv(TonePower(estimated_noise), TonePower(signal))
    /\ pc' = "tone_done"
    /\ UNCHANGED <<intensity, normalized_intensity, displacement,
                   dir_listing, normcase_folds, cutoff_frequency,
                   sampling_frequency, output_dir_exists, csv_files, idx, time,
                   signal, estimated_noise, snr, snr_error, exc, log, stdout,
                   plots, exit_status, order, e_supplied, calls, scale>>

ToneNext == ToneFilter \/ ToneSnr \/ ToneRatio

ToneSpec == ToneInit /\ [][ToneNext]_vars

-----------------------------------------------------------------------------
(* Properties of repeated calls, checked under CallsSpec *)

\* call j was made on c times the arrays of call i, for a non-zero c
IsScaledCall(i, j) ==
    /\ calls[i].fn = calls[j].fn
    /\ \E c \in Scales :
          /\ calls[j].sig = Scale(c, calls[i].sig)
          /\ calls[j].noise = Scale(c, calls[i].noise)

\* C11: for a signal of non-zero power, multiplying both the signal and the
\* noise by the same non-zero constant leaves the power ratio and the value
\* in decibels unchanged (exact arithmetic).
C11_ScalingLeavesRatioUnchanged ==
    \A i, j \in 1 .. Len(calls) :
        (IsScaledCall(i, j) /\ IsNonZeroPower(MeanSquare(calls[i].sig)))
            => /\ calls[i].res.exc = None
               /\ calls[j].res.exc = None
               /\ calls[i].fn = "calculate_average_power_ratio"
                      => calls[j].res.val = calls[i].res.val
               /\ calls[i].fn = "calculate_snr"
                      => calls[j].res.val.snr = calls[i].res.val.snr

\* the ratio was computed for arrays of non-zero power and for a multiple of
\* them, and the decibel value was computed as well
C11_Witness ==
    \E i, j, k \in 1 .. Len(calls) :
        /\ IsScaledCall(i, j)
        /\ calls[i].fn = "calculate_average_power_ratio"
        /\ calls[k].fn = "calculate_snr"
        /\ IsNonZeroPower(MeanSquare(calls[i].sig))
        /\ IsNonZeroPower(MeanSquare(calls[i].noise))

-----------------------------------------------------------------------------
(* Properties of the estimator, checked under EstSpec *)

signal_power == MeanSquare(signal)

noise_power == MeanSquare(estimated_noise)

\* a defined real number that is at least 0
IsNonNegReal(x) == (x.k = "fin" /\ x.n >= 0) \/ x.k = "err"

EstProducedValue == pc \in {"estimate_ratio", "estimate_returned"}

\* (10*sqrt(2)/ln(10)) * e
ErrorAt(e) == TenOverLn10Sqrt(FMul(Frac(2, 1), FMul(e, e)))

\* C2: for equal-length sequences whose signal has zero mean-square power,
\* estimate fails (DegenerateSignalError) and returns no ratio and no decibel
\* value.
C2_ZeroSignalPowerFails ==
    (Len(signal) = Len(estimated_noise) /\ Len(signal) > 0 /\ signal_power = Zero)
        => ~EstProducedValue

\* C3: for a signal of non-zero power and a noise sequence of zero power,
\* neither call of estimate raises, and estimate returns ratio_db = +infinity
\* and ratio = 0.
C3_ZeroNoisePowerIsInfiniteDb ==
    (IsNonZeroPower(signal_power) /\ noise_power = Zero)
        => /\ pc # "estimate_raised"
           /\ exc = None
           /\ calculate_snr(signal, estimated_noise).exc = None
           /\ calculate_average_power_ratio(signal, estimated_noise).exc = None
           /\ EstProducedValue => snr = PosInf
           /\ pc = "estimate_returned" => power_ratio = Zero

C3_Witness ==
    /\ pc = "estimate_returned"
    /\ IsNonZeroPower(signal_power)
    /\ noise_power = Zero
    /\ snr = PosInf
    /\ power_ratio = Zero

\* C4: for a signal and a noise sequence of different lengths (both
\* non-empty), estimate fails (LengthMismatchError) and produces no power,
\* ratio or decibel value.
C4_LengthMismatchFails ==
    (/\ Len(signal) > 0
     /\ Len(estimated_noise) > 0
     /\ Len(signal) # Len(estimated_noise))
        => ~EstProducedValue

\* C9 as stated: for the error fraction e the caller supplies and non-zero
\* signal and noise powers, the returned ratio_db_error is
\* (10*sqrt(2)/ln(10)) * e.
C9_ErrorFollowsSuppliedFraction ==
    (EstProducedValue /\ IsNonZeroPower(signal_power) /\ IsNonZeroPower(noise_power))
        => snr_error = ErrorAt(e_supplied)

\* C9 as amended: for non-zero signal and noise powers the returned
\* ratio_db_error is (10*sqrt(2)/ln(10)) * 0.005, whatever the power values
\* and whatever error fraction the caller wants.
C9_ErrorIsFixedFraction ==
    (EstProducedValue /\ IsNonZeroPower(signal_power) /\ IsNonZeroPower(noise_power))
        => snr_error = ErrorAt(Frac(5, 1000))

C9_Witness ==
    /\ pc = "estimate_returned"
    /\ IsNonZeroPower(signal_power)
    /\ IsNonZeroPower(noise_power)
    /\ signal_power # noise_power
    /\ e_supplied = Frac(50, 1000)
    /\ snr_error = ErrorAt(Frac(5, 1000))

\* C10: every result estimate returns has signal_power >= 0, noise_power >= 0,
\* ratio >= 0 and ratio_db_error >= 0, each a defined real number (stated for
\* non-empty sequences of equal length whose signal has non-zero power,
\* noise_power = 0 included).
C10_ResultFieldsAreNonNegReals ==
    (/\ pc = "estimate_returned"
     /\ Len(signal) = Len(estimated_noise)
     /\ IsNonZeroPower(signal_power))
        => /\ IsNonNegReal(signal_power)
           /\ IsNonNegReal(noise_power)
           /\ IsNonNegReal(power_ratio)
           /\ IsNonNegReal(snr_error)

-----------------------------------------------------------------------------
(* Properties of high_pass_filter, checked under SepSpec *)

\* the cutoff lies strictly between 0 and the Nyquist frequency fs / 2
CutoffInBand == 0 < 2 * cutoff_frequency /\ 2 * cutoff_frequency < sampling_frequency

RaisedBy(by) == exc # None /\ exc.by = by

\* C5: for a cutoff that is not strictly between 0 and the Nyquist frequency
\* (0, the Nyquist frequency and negative cutoffs included), separate fails in
\* the filter design (the ValueError of butter, the code's
\* InvalidFilterSpecError) and returns no filtered sequence.
C5_CutoffOutOfBandRaises ==
    ~CutoffInBand
        => /\ pc # "separate_returned"
           /\ estimated_noise = None
           /\ pc = "separate" => ENABLED SepNext
           /\ pc = "separate_raised" => exc = Raise("ValueError", "butter").exc

C5_Witness ==
    /\ pc = "separate_raised"
    /\ 2 * cutoff_frequency = sampling_frequency
    /\ Len(signal) > 3 * (order + 1)
    /\ RaisedBy("butter")
    /\ estimated_noise = None

\* C6 as stated: for every order and every input, given a valid cutoff,
\* separate fails for lack of data (the ValueError of filtfilt, the code's
\* InsufficientDataError) exactly when the input has fewer than
\* 3 * (2*order + 1) samples, and succeeds for every longer input.
C6_FailsBelowThreeTimesTwoOrderPlusOne ==
    (CutoffInBand /\ pc # "separate")
        => /\ (pc = "separate_raised" /\ RaisedBy("filtfilt"))
                <=> Len(signal) < 3 * (2 * order + 1)
           /\ Len(signal) >= 3 * (2 * order + 1) => pc = "separate_returned"

\* C6 as amended: for every order and every input, given a valid cutoff,
\* separate fails for lack of data (the ValueError of filtfilt) exactly when
\* the input has at most 3 * (order + 1) samples, and for every longer input
\* it returns a sequence.
C6_FailsUpToThreeTimesOrderPlusOne ==
    (CutoffInBand /\ pc # "separate")
        => /\ (pc = "separate_raised" /\ RaisedBy("filtfilt") /\ estimated_noise = None)
                <=> Len(signal) <= 3 * (order + 1)
           /\ Len(signal) > 3 * (order + 1)
                => (pc = "separate_returned" /\ exc = None /\ estimated_noise # None)

C6_Witness ==
    /\ CutoffInBand
    /\ order = 5
    /\ Len(signal) = 19
    /\ pc = "separate_returned"
    /\ estimated_noise # None

-----------------------------------------------------------------------------
(* Properties of process_files, checked under Spec *)

LoopStages == {"load", "filter", "snr", "ratio", "print", "plot", "log_processed"}

\* the statements of the try body that run after high_pass_filter returned
EstimateStages == {"snr", "ratio", "print", "plot", "log_processed"}

IsFileError(entry) ==
    /\ entry.level = "ERROR"
    /\ entry.msg = "Error processing"
    /\ entry.cause # None

\* C1: once files are discovered, every file gets its log entry in discovery
\* order (an error entry names the file and the exception that was caught),
\* a failure leaves the loop running for the files after it, no statement
\* that can raise leaves the function stuck short of its return (the two
\* estimate calls always complete), and the script then ends normally.
C1_FileFailureDoesNotAbortBatch ==
    csv_files # <<>>
        => /\ \A j \in 1 .. Len(log) :
                /\ j <= Len(csv_files)
                /\ log[j].file = csv_files[j]
                /\ log[j].level = "ERROR" => IsFileError(log[j])
           /\ pc \in LoopStages => (idx <= Len(csv_files) /\ Len(log) = idx - 1)
           /\ pc \in {"return", "exited"} => Len(log) = Len(csv_files)
           /\ pc = "exited" => exit_status = 0
           /\ pc \notin {"exited", "snr", "ratio"}
                => ENABLED (Load \/ Filter \/ PrintResults \/ Plot \/ LogProcessed
                            \/ ScriptEnds)

C1_Witness ==
    /\ pc = "exited"
    /\ exit_status = 0
    /\ Len(csv_files) = 2
    /\ Len(log) = 2
    /\ IsFileError(log[1])
    /\ log[1].file = csv_files[1]
    /\ log[2].msg = "Processed"
    /\ log[2].file = csv_files[2]

\* the record the handler writes for the exception e caught while on file_path
ErrorEntry(e) ==
    [level |-> "ERROR", msg |-> "Error processing", file |-> file_path, cause |-> e]

\* C7: in the try body separate (high_pass_filter) runs first and estimate
\* (calculate_snr, calculate_average_power_ratio) second, on its output.  When
\* separate raises, the estimate statements are not started, no result is
\* assigned, printed or plotted, and the exception logged is the one raised;
\* the same holds for an exception of either estimate call.
C7_SeparateThenEstimateErrorsUnchanged ==
    [][/\ pc = "filter" =>
            LET outs == high_pass_filter(signal, cutoff_frequency,
                                         sampling_frequency, DefaultOrder)
            IN  IF \A r \in outs : r.exc # None
                THEN /\ \E r \in outs : log' = Append(log, ErrorEntry(r.exc))
                     /\ pc' \notin EstimateStages
                     /\ UNCHANGED <<estimated_noise, snr, snr_error, power_ratio,
                                    stdout, plots>>
                ELSE /\ pc' = "snr"
                     /\ Return(estimated_noise') \in outs
                     /\ log' = log
       /\ pc = "snr" =>
            LET r == calculate_snr(signal, estimated_noise)
            IN  IF r.exc # None
                THEN /\ log' = Append(log, ErrorEntry(r.exc))
                     /\ UNCHANGED <<snr, snr_error, power_ratio, stdout, plots>>
                ELSE /\ log' = log
                     /\ snr' = r.val.snr
                     /\ snr_error' = r.val.snr_error
       /\ pc = "ratio" =>
            LET r == calculate_average_power_ratio(signal, estimated_noise)
            IN  IF r.exc # None
                THEN /\ log' = Append(log, ErrorEntry(r.exc))
                     /\ UNCHANGED <<power_ratio, stdout, plots>>
                ELSE /\ log' = log
                     /\ power_ratio' = r.val
       /\ pc' \in EstimateStages =>
            Return(estimated_noise') \in
                high_pass_filter(signal', cutoff_frequency', sampling_frequency',
                                 DefaultOrder)
      ]_vars

C7_Witness ==
    /\ pc = "exited"
    /\ Len(csv_files) = 1
    /\ Len(log) = 1
    /\ IsFileError(log[1])
    /\ log[1].cause = Raise("ValueError", "filtfilt").exc
    /\ Len(signal) = 18
    /\ estimated_noise = None
    /\ snr = None
    /\ power_ratio = None
    /\ stdout = <<>>
    /\ plots = <<>>

\* C8: the script ends with a non-zero exit status when no input file is
\* found or when a file fails, and with exit status 0 only when every file
\* was processed.
C8_ExitStatusTellsFailure ==
    pc = "exited"
        => /\ (csv_files = <<>> \/ \E j \in 1 .. Len(log) : log[j].level = "ERROR")
                => exit_status # 0
           /\ exit_status = 0
                => /\ csv_files # <<>>
                   /\ \A j \in 1 .. Len(csv_files) :
                        j <= Len(log) /\ log[j].msg = "Processed"

\* the log entries written for file f: one per completed attempt of f
AttemptsOf(f) == {j \in 1 .. Len(log) : log[j].file = f}

\* C13: no failure is retried: while the driver is on a file, no failure of
\* that file has been reported before, and when the function returns every
\* discovered file has been attempted exactly once.
C13_EachFileAttemptedOnce ==
    /\ pc \in LoopStages
          => \A j \in 1 .. Len(log) : IsFileError(log[j]) => log[j].file # file_path
    /\ (pc = "return" /\ csv_files # <<>>)
          => \A i \in 1 .. Len(csv_files) : Cardinality(AttemptsOf(csv_files[i])) = 1

-----------------------------------------------------------------------------
(* Further properties of high_pass_filter, checked under SepSpec *)

\* C14: whenever high_pass_filter returns (valid cutoff, enough samples),
\* its result has exactly as many samples as its input, and the input is
\* left as it was, so a caller that hands both to the estimator hands it
\* two arrays of equal length.
C14_SeparateKeepsLength ==
    pc = "separate_returned"
        => /\ CutoffInBand
           /\ Len(signal) > DefaultPadlen(order)
           /\ estimated_noise # None
           /\ Len(estimated_noise) = Len(signal)

\* a 7-sample input was filtered with order 1 and gave a non-zero result
C14_Witness ==
    /\ pc = "separate_returned"
    /\ order = 1
    /\ Len(signal) = 7
    /\ Len(estimated_noise) = 7
    /\ \E i \in 1 .. 7 : estimated_noise[i] # 0

-----------------------------------------------------------------------------
(* Properties of the pipeline on a tone, checked under ToneSpec *)

\* x <= y for finite x, y
FLe(x, y) == x.n * y.d <= y.n * x.d

\* the unit sine at 100 Hz, sampled at 1000 Hz for 1000 samples, was taken
\* through high_pass_filter(cutoff 50, order 5) and both estimates
IsUnitSineRun ==
    /\ pc = "tone_done"
    /\ signal = Tone(100, Frac(1, 1), 1000)
    /\ cutoff_frequency = 50
    /\ sampling_frequency = 1000
    /\ order = 5

-----------------------------------------------------------------------------
(* Properties of one run with the caller's parameters, checked under RunSpec *)

\* the run's only file failed in the filter, with the exception raised by `by`
FilterFailedBy(by) ==
    /\ pc \in {"return", "exited"}
    /\ Len(log) = 1
    /\ IsFileError(log[1])
    /\ log[1].cause = Raise("ValueError", by).exc

\* the run got past calculate_snr with a defined, non-zero error
HasSnrError == pc \in {"ratio", "print", "plot", "log_processed"} /\ snr_error.k = "err"

\* C16 as stated: each of cutoff, sampling rate, filter order and error
\* fraction is the caller's for the run: the filter fails or returns as it
\* does for the caller's cutoff, rate and order, and the error reported is
\* that of the caller's error fraction.
C16_FourParametersOverridable ==
    /\ FilterFailedBy("filtfilt") => Len(signal) <= DefaultPadlen(order)
    /\ pc \in EstimateStages
          => Return(estimated_noise)
                \in high_pass_filter(signal, cutoff_frequency, sampling_frequency, order)
    /\ HasSnrError => snr_error = ErrorAt(e_supplied)

\* C16, amended: the cutoff and the sampling rate are the caller's (50 and
\* 1000 in the script's own call); the filter order is 5 and the error
\* fraction is 0.005 in every run, whatever the caller wants.
C16_CutoffAndRateOverridableOrderAndErrorFixed ==
    /\ FilterFailedBy("filtfilt") => Len(signal) <= DefaultPadlen(5)
    /\ FilterFailedBy("butter")
          => ~(0 < 2 * cutoff_frequency /\ 2 * cutoff_frequency < sampling_frequency)
    /\ pc \in EstimateStages
          => /\ Return(estimated_noise)
                   \in high_pass_filter(signal, cutoff_frequency, sampling_frequency, 5)
             /\ 0 < 2 * cutoff_frequency /\ 2 * cutoff_frequency < sampling_frequency
    /\ HasSnrError => snr_error = ErrorAt(Frac(5, 1000))

\* a caller wanting cutoff 500 at rate 2000, order 1 and error fraction
\* 0.001 got a 19-sample signal filtered and its error computed
C16_Witness ==
    /\ HasSnrError
    /\ cutoff_frequency = 500
    /\ sampling_frequency = 2000
    /\ order = 1
    /\ e_supplied = Frac(1, 1000)
    /\ Len(signal) = 19

-----------------------------------------------------------------------------
(* Further properties of process_files, checked under Spec *)

Last(q) == q[Len(q)]

\* the last two lines on stdout are f's results and then "Saved plot" for f
PrintedThenSaved(f) ==
    /\ Len(stdout) >= 2
    /\ stdout[Len(stdout) - 1] = [line |-> "Results", file |-> f]
    /\ Last(stdout) = [line |-> "Saved plot", file |-> f]
    /\ plots # <<>>
    /\ Last(plots) = f

NoCsvInDir == \A i \in 1 .. Len(dir_listing) : dir_listing[i].ext \notin {"csv", "CSV"}

NoCsvEntry == [level |-> "INFO", msg |-> "No CSV files found", file |-> None,
               cause |-> None]

\* makedirs raised: the run ended before the discovery
MakedirsFailed == pc = "exited" /\ exit_status = 1

\* C18: the output directory exists from the discovery on, in every run
\* that gets to the discovery; when input_dir holds no '*.csv' or '*.CSV'
\* file, the discovery logs 'No CSV files found' and the function returns:
\* nothing is loaded, filtered, estimated, printed or plotted, and nothing
\* else is logged.  The message is logged in no other run.
C18_DirCreatedFirstAndEmptyRunDoesNothing ==
    /\ (pc # "makedirs" /\ ~MakedirsFailed) => output_dir_exists
    /\ (NoCsvInDir /\ pc \notin {"makedirs", "glob"} /\ ~MakedirsFailed)
          => /\ pc \in {"return", "exited"}
             /\ csv_files = <<>>
             /\ log = <<NoCsvEntry>>
             /\ time = None /\ signal = None /\ estimated_noise = None
             /\ snr = None /\ snr_error = None /\ power_ratio = None
             /\ stdout = <<>> /\ plots = <<>>
    /\ (\E j \in 1 .. Len(log) : log[j] = NoCsvEntry) => NoCsvInDir

\* a run on a directory holding only a .txt file ended after the message
C18_Witness ==
    /\ pc = "exited"
    /\ exit_status = 0
    /\ dir_listing = <<[name |-> 1, ext |-> "txt"]>>
    /\ output_dir_exists
    /\ log = <<NoCsvEntry>>
    /\ plots = <<>>

-----------------------------------------------------------------------------
(* Properties of the strain script, checked under StrainSpec *)

HasTwoDistinctValues(a) == \E i, j \in 1 .. Len(a) : a[i] # a[j]

\* lo <= x <= hi for a finite x and integers lo, hi
IsWithin(x, lo, hi) == x.k = "fin" /\ lo * x.d <= x.n /\ x.n <= hi * x.d

\* C19: for an intensity array with at least two distinct values,
\* normalize_intensity returns values within [0, 1], 0 at the minimum and 1
\* at the maximum, so the argument (intensity - I0) / I0 that
\* calculate_displacement hands to arccos lies in [-1, 0] and the
\* displacement of every sample is defined.
C19_NormalizedWithinUnitInterval ==
    (pc \in {"displacement", "strain"} /\ HasTwoDistinctValues(intensity))
        => /\ Len(normalized_intensity) = Len(intensity)
           /\ \A i \in 1 .. Len(intensity) :
                 /\ IsWithin(normalized_intensity[i], 0, 1)
                 /\ intensity[i] = SeqMin(intensity)
                       => normalized_intensity[i] = Frac(0, 1)
                 /\ intensity[i] = SeqMax(intensity)
                       => normalized_intensity[i] = Frac(1, 1)
           /\ pc = "strain"
                 => \A i \in 1 .. Len(intensity) :
                       /\ displacement[i].k = "arccos"
                       /\ IsWithin(displacement[i].arg, -1, 0)

\* the displacement was computed for three samples, one strictly between
\* the minimum and the maximum
C19_Witness ==
    /\ pc = "strain"
    /\ intensity = <<2, -1, 0>>
    /\ normalized_intensity = <<Frac(1, 1), Frac(0, 1), Frac(1, 3)>>
    /\ displacement[3] = [k |-> "arccos", arg |-> Frac(-2, 3)]

=============================================================================
